---- MODULE Spec2Model ----
(***************************************************************************)
(* Test-data generator (app.py): module registry and loader, the epic      *)
(* configuration normalizer for base and rider epics, and the generation   *)
(* orchestrator driven by script runs of one session.                      *)
(*                                                                         *)
(* Names (file names, module identifiers, display names) are sequences of  *)
(* one-character strings.  Python dicts are sequences of [key, val]        *)
(* records in insertion order.  None is a value of its own.                *)
(***************************************************************************)
EXTENDS Integers, Sequences, FiniteSets, TLC

VARIABLES
    listing,                        \* os.listdir(LOGIC_MODULE_DIR), in listing order
    disk,                           \* file name -> what executing the file yields
    generated_df,                   \* st.session_state.generated_df
    selected_module_name_py,        \* st.session_state.selected_module_name_py
    selected_display_name,          \* st.session_state.selected_display_name
    processing,                     \* st.session_state.processing
    epic_counts_to_generate,        \* st.session_state.epic_counts_to_generate
    epic_counts_to_generate_rider,  \* st.session_state.epic_counts_to_generate_rider
    ui,                             \* widget key -> value the user has set
    pc,                             \* "start", "rerun": a script run is due; "idle"; "in_call"
    loc,                            \* locals of the last script run
    report,                         \* the status message of the last script run
    call,                           \* arguments of the last generate_test_cases call
    req,                            \* the last accepted generate request
    modules                         \* available_modules of the last listing

vars == <<listing, disk, generated_df, selected_module_name_py, selected_display_name,
          processing, epic_counts_to_generate, epic_counts_to_generate_rider,
          ui, pc, loc, report, call, req, modules>>

-----------------------------------------------------------------------------
(* Bounds *)

\* at most this many widgets hold a value set by the user
MaxEdits == 2
\* count inputs take the default 5 or a value in 0..MaxCount
MaxCount == 0
\* the registry is listed over directories of at most this many files
MaxFiles == 3
\* the surface is configured by at most this many gestures before a run
MaxGestures == 2
\* a generation run returns a frame of at most this many rows
MaxRows == 11

-----------------------------------------------------------------------------
(* Python values *)

\* None where a string is expected
None == <<"None">>

\* None where an object (a module, a data frame) is expected
NoneObj == [none |-> TRUE]

EmptyDict == <<>>

DictKeys(d) == [i \in 1..Len(d) |-> d[i].key]

HasKey(d, k) == \E i \in 1..Len(d) : d[i].key = k

DictGet(d, k) == d[CHOOSE i \in 1..Len(d) : d[i].key = k].val

\* d[k] = v : replaces in place, or appends a new key
DictPut(d, k, v) ==
    IF HasKey(d, k)
    THEN [i \in 1..Len(d) |-> IF d[i].key = k THEN [key |-> k, val |-> v] ELSE d[i]]
    ELSE Append(d, [key |-> k, val |-> v])

DictValues(d) == {d[i].val : i \in 1..Len(d)}

Range(s) == {s[i] : i \in 1..Len(s)}

-----------------------------------------------------------------------------
(* Strings *)

UpperOf == [a |-> "A", b |-> "B", c |-> "C", d |-> "D", n |-> "N", g |-> "G",
            p |-> "P", y |-> "Y", t |-> "T", x |-> "X"]

LowerLetters == DOMAIN UpperOf

UpperLetters == {UpperOf[c] : c \in LowerLetters}

IsCased(c) == c \in LowerLetters \cup UpperLetters

ToUpper(c) == IF c \in LowerLetters THEN UpperOf[c] ELSE c

ToLower(c) == IF c \in UpperLetters THEN CHOOSE l \in LowerLetters : UpperOf[l] = c ELSE c

\* str.replace("_", " ")
ReplaceUnderscore(s) == [i \in 1..Len(s) |-> IF s[i] = "_" THEN " " ELSE s[i]]

\* str.title(): a cased character is upper-cased after an uncased one (or at the
\* start) and lower-cased after a cased one
StrTitle(s) ==
    [i \in 1..Len(s) |->
        IF i = 1 \/ ~IsCased(s[i - 1]) THEN ToUpper(s[i]) ELSE ToLower(s[i])]

EndsWith(s, suffix) ==
    /\ Len(s) >= Len(suffix)
    /\ SubSeq(s, Len(s) - Len(suffix) + 1, Len(s)) = suffix

StartsWith(s, prefix) ==
    /\ Len(s) >= Len(prefix)
    /\ SubSeq(s, 1, Len(prefix)) = prefix

DotPy == <<".", "p", "y">>

DunderPrefix == <<"_", "_">>

\* module_name_py_file.replace("_", " ").title()
FilenameTitle(module_name_py_file) == StrTitle(ReplaceUnderscore(module_name_py_file))

-----------------------------------------------------------------------------
(* Module Registry and Loader *)

\* What executing a module file yields: raises, or a module object with a set of
\* attributes.  gen_callable says whether generate_test_cases is callable.
hasattr(module_obj, attr) == attr \in module_obj.attrs

IsModuleFile(filename) == EndsWith(filename, DotPy) /\ ~StartsWith(filename, DunderPrefix)

ModuleNamePy(filename) == SubSeq(filename, 1, Len(filename) - 3)

\* one iteration of the loop over os.listdir (lines 51-61)
ListOne(mods, filename, files) ==
    IF IsModuleFile(filename)
    THEN LET module_name_py_file == ModuleNamePy(filename)
             module_obj == files[filename]
         IN  IF module_obj.raises
             THEN DictPut(mods, FilenameTitle(module_name_py_file), module_name_py_file)
             ELSE LET display_name ==
                          IF hasattr(module_obj, "MODULE_NAME")
                          THEN module_obj.MODULE_NAME
                          ELSE FilenameTitle(module_name_py_file)
                  IN  DictPut(mods, display_name, module_name_py_file)
    ELSE mods

RECURSIVE ListFrom(_, _, _, _)
ListFrom(mods, names, i, files) ==
    IF i > Len(names) THEN mods
    ELSE ListFrom(ListOne(mods, names[i], files), names, i + 1, files)

get_available_logic_modules(names, files) == ListFrom(EmptyDict, names, 1, files)

\* load_logic_module: the module object, or None when executing the file raises
load_logic_module(module_name_py, files) ==
    LET filename == module_name_py \o DotPy
    IN  IF filename \in DOMAIN files /\ ~files[filename].raises
        THEN files[filename]
        ELSE NoneObj

\* truth value of a loaded module handle ("if logic_module")
Loaded(logic_module) == logic_module # NoneObj

-----------------------------------------------------------------------------
(* Epic Configuration Normalizer *)

UNIFORM == "Apply Same Count to All Epics"

PER_EPIC == "Set Individual Counts for Each Epic"

ppt_names == <<"Single Pay", "Limited Pay (5 pay)", "Limited Pay (10 pay)",
               "Limited Pay (15 pay)", "Limited Pay (Pay till age 60)", "Regular Pay">>

PPT == Range(ppt_names)

PptRangedKeys == {"EntryAge", "PremiumPayingTerm", "PolicyTerm", "MaturityAge"}

entry_age_ppt_ranges ==
    [p \in PPT |-> IF p = "Limited Pay (Pay till age 60)" THEN <<18, 55>> ELSE <<18, 65>>]

policy_term_ppt_ranges ==
    [p \in PPT |->
        CASE p = "Single Pay" -> <<1, 5>>
          [] p = "Limited Pay (5 pay)" -> <<10, 67>>
          [] p = "Limited Pay (10 pay)" -> <<15, 67>>
          [] p = "Limited Pay (15 pay)" -> <<20, 67>>
          [] OTHER -> <<5, 67>>]

maturity_age_ppt_ranges ==
    [p \in PPT |->
        CASE p = "Single Pay" -> <<19, 85>>
          [] p = "Limited Pay (5 pay)" -> <<24, 85>>
          [] p = "Limited Pay (10 pay)" -> <<29, 85>>
          [] p = "Limited Pay (15 pay)" -> <<34, 85>>
          [] p = "Limited Pay (Pay till age 60)" -> <<65, 85>>
          [] OTHER -> <<23, 85>>]

maturity_age_ppt_ranges_rider == [p \in PPT |-> <<19, 75>>]

premium_paying_ppt_ranges ==
    [p \in PPT |->
        CASE p = "Single Pay" -> <<1, 1>>
          [] p = "Limited Pay (5 pay)" -> <<5, 5>>
          [] p = "Limited Pay (10 pay)" -> <<10, 10>>
          [] p = "Limited Pay (15 pay)" -> <<15, 15>>
          [] p = "Limited Pay (Pay till age 60)" -> <<5, 42>>
          [] OTHER -> <<5, 67>>]

frequency_options == <<"Annual", "Half-Yearly", "Quarterly", "Monthly", "Single Pay">>

frequency_map == [f \in Range(frequency_options) |->
                    CHOOSE i \in 1..Len(frequency_options) : frequency_options[i] = f]

\* widget key suffixes of the two tabs
BASE == ""

RIDER == "_rider"

\* the value a keyed widget returns: what the user set, else its value= argument
Widget(w, key, default) == IF key \in DOMAIN w THEN w[key] ELSE default

\* the default range table of a PPT-ranged epic in a tab (lines 199-230, 523-554)
DefaultRange(epic_key, fam) ==
    CASE epic_key = "EntryAge" -> entry_age_ppt_ranges
      [] epic_key = "PolicyTerm" -> policy_term_ppt_ranges
      [] epic_key = "MaturityAge" ->
            IF fam = RIDER THEN maturity_age_ppt_ranges_rider ELSE maturity_age_ppt_ranges
      [] OTHER -> premium_paying_ppt_ranges

SliderName(epic_key) ==
    IF epic_key = "MaturityAge" THEN "maturity_age_slider" ELSE "entry_age_slider"

\* min_value and max_value of the st.slider of a PPT row (lines 253-265,
\* 403-415 in the base tab; 577-589, 725-737 in the rider tab)
SliderBounds(epic_key, fam) ==
    CASE epic_key = "EntryAge" -> <<0, 85>>
      [] epic_key = "PolicyTerm" -> <<5, 80>>
      [] epic_key = "MaturityAge" -> IF fam = RIDER THEN <<19, 75>> ELSE <<19, 85>>
      [] OTHER -> <<0, 85>>

\* the arguments st.slider is called with in a PPT row: a one-value slider
\* starts at the first number of its default
SliderCall(epic_key, ppt, fam) ==
    LET dflt == DefaultRange(epic_key, fam)[ppt]
        bounds == SliderBounds(epic_key, fam)
    IN  [min_value |-> bounds[1], max_value |-> bounds[2],
         value |-> IF epic_key \in {"EntryAge", "PolicyTerm", "MaturityAge"} \/ dflt[1] # dflt[2]
                   THEN dflt ELSE <<dflt[1], dflt[1]>>]

\* (min_age, max_age) of one PPT row; a default with min = max is a one-value slider
SliderRange(w, epic_key, ppt, fam) ==
    LET dflt == DefaultRange(epic_key, fam)[ppt]
        key == <<SliderName(epic_key), epic_key, ppt, fam>>
    IN  IF epic_key \in {"EntryAge", "PolicyTerm", "MaturityAge"} \/ dflt[1] # dflt[2]
        THEN Widget(w, key, dflt)
        ELSE LET v == Widget(w, key, dflt[1]) IN <<v, v>>

\* the top-level checkbox of an epic
IsSelected(w, epic_key, fam, select_all) == Widget(w, <<"epic_cb", epic_key, fam>>, select_all)

\* variant: ranges and counts are recorded for every variant, enabled or not
PptPayloadPerEpicAllVariants(w, epic_key, fam, is_selected) ==
    LET enabled(ppt) == Widget(w, <<"ppt_enabled", epic_key, ppt, fam>>, is_selected)
    IN  [ppt_age_ranges |-> [ppt \in PPT |-> SliderRange(w, epic_key, ppt, fam)],
         ppt_pos_counts |-> [ppt \in PPT |-> Widget(w, <<"epic_pos", epic_key, ppt, fam>>, 5)],
         ppt_neg_counts |-> [ppt \in PPT |-> Widget(w, <<"epic_neg", epic_key, ppt, fam>>, 5)],
         ppt_enabled |-> [ppt \in PPT |-> enabled(ppt)]]

\* PPT-ranged epic, individual counts (lines 233-287, 557-610)
PptPayloadPerEpic(w, epic_key, fam, is_selected) ==
    LET enabled(ppt) == Widget(w, <<"ppt_enabled", epic_key, ppt, fam>>, is_selected)
        on == {ppt \in PPT : enabled(ppt)}
    IN  [ppt_age_ranges |-> [ppt \in on |-> SliderRange(w, epic_key, ppt, fam)],
         ppt_pos_counts |-> [ppt \in on |-> Widget(w, <<"epic_pos", epic_key, ppt, fam>>, 5)],
         ppt_neg_counts |-> [ppt \in on |-> Widget(w, <<"epic_neg", epic_key, ppt, fam>>, 5)],
         ppt_enabled |-> [ppt \in PPT |-> enabled(ppt)]]

\* PPT-ranged epic, same count for all (lines 390-430, 712-751)
PptPayloadUniform(w, epic_key, fam, is_selected, pos_global, neg_global) ==
    LET enabled(ppt) == Widget(w, <<"ppt_enabled_all", epic_key, ppt, fam>>, is_selected)
        on == {ppt \in PPT : enabled(ppt)}
    IN  [ppt_age_ranges |-> [ppt \in on |-> SliderRange(w, epic_key, ppt, fam)],
         ppt_enabled |-> [ppt \in PPT |-> enabled(ppt)],
         positive |-> pos_global,
         negative |-> neg_global]

\* variant: a selected PPT-ranged epic is added whatever its variants
AnyEnabledIgnored(payload) == TRUE

AnyEnabled(payload) == \E ppt \in PPT : payload.ppt_enabled[ppt]

\* variant: every frequency of the table is mapped, ticked or not
MappedFrequenciesUnfiltered(w, fam, is_selected) ==
    [i \in 1..Len(frequency_options) |-> frequency_map[frequency_options[i]]]

\* mapped_frequencies: the codes of the ticked frequencies, in frequency_options order
MappedFrequencies(w, fam, is_selected) ==
    LET ticked(freq) == Widget(w, <<"freq_cb", freq, fam>>, is_selected)
        selected_frequencies == SelectSeq(frequency_options, ticked)
    IN  [i \in 1..Len(selected_frequencies) |-> frequency_map[selected_frequencies[i]]]

\* PaymentFrequency payload (lines 309-315, 445-451, 632-638, 766-772)
FrequencyPayload(w, epic_key, fam, is_selected, mode, pos_global, neg_global) ==
    [positive |-> IF mode = PER_EPIC THEN Widget(w, <<"epic_pos", epic_key, fam>>, 5)
                  ELSE pos_global,
     negative |-> IF mode = PER_EPIC THEN Widget(w, <<"epic_neg", epic_key, fam>>, 5)
                  ELSE neg_global,
     payment_frequency_options |-> MappedFrequencies(w, fam, is_selected)]

\* variant: the Max SinglePay input accepts any value from 0
MaxSinglePayMinZero(min_sp) == 0

\* min_value of the Max SinglePay input (lines 337, 471)
MaxSinglePayMin(min_sp) == min_sp

\* st.number_input(min_value=, value=, key=): the widget is identified by its
\* key together with its min_value, so the value the user entered is returned
\* only while min_value is what it was when the value was entered
number_input(w, key, min_value, value) == Widget(w, Append(key, min_value), value)

\* st.number_input raises when its value= argument is below min_value; the
\* inputs of the Single Pay tier are drawn whether or not the epic is selected
SumAssuredRaises(w, epic_key) ==
    5000000 < MaxSinglePayMin(Widget(w, <<"min_sp", epic_key>>, 2500000))

\* variant: both tiers are written whatever their "Enable" boxes
SumAssuredPayloadBothTiers(w, epic_key, is_selected, pos_global, neg_global) ==
    [tier \in {"Single Pay", "Others"} |->
        IF tier = "Single Pay"
        THEN [min_val |-> Widget(w, <<"min_sp", epic_key>>, 2500000),
              max_val |-> number_input(w, <<"max_sp", epic_key>>,
                                       MaxSinglePayMin(Widget(w, <<"min_sp", epic_key>>,
                                                              2500000)),
                                       5000000),
              positive |-> pos_global, negative |-> neg_global]
        ELSE [min_val |-> Widget(w, <<"min_oth", epic_key>>, 5000000),
              positive |-> pos_global, negative |-> neg_global]]

\* SumAssuredValidation tiers, base tab only (lines 355-371, 481-497): a dict
\* over the enabled tiers; both count modes write the global pair into each tier
SumAssuredPayload(w, epic_key, is_selected, pos_global, neg_global) ==
    LET sp == Widget(w, <<"sa_enabled", epic_key>>, is_selected)
        oth == Widget(w, <<"oth_enabled", epic_key>>, is_selected)
        min_sp == Widget(w, <<"min_sp", epic_key>>, 2500000)
        max_sp == number_input(w, <<"max_sp", epic_key>>, MaxSinglePayMin(min_sp), 5000000)
        min_oth == Widget(w, <<"min_oth", epic_key>>, 5000000)
        tiers == (IF sp THEN {"Single Pay"} ELSE {}) \cup (IF oth THEN {"Others"} ELSE {})
    IN  [tier \in tiers |->
            IF tier = "Single Pay"
            THEN [min_val |-> min_sp, max_val |-> max_sp,
                  positive |-> pos_global, negative |-> neg_global]
            ELSE [min_val |-> min_oth, positive |-> pos_global, negative |-> neg_global]]

\* variant: the per-epic count inputs are used in both count modes
GenericPayloadEnteredCounts(w, epic_key, fam, mode, pos_global, neg_global) ==
    [positive |-> Widget(w, <<"epic_pos", epic_key, fam>>, 5),
     negative |-> Widget(w, <<"epic_neg", epic_key, fam>>, 5)]

\* generic epic (lines 373-387, 499-503, 695-709, 819-823)
GenericPayload(w, epic_key, fam, mode, pos_global, neg_global) ==
    [positive |-> IF mode = PER_EPIC THEN Widget(w, <<"epic_pos", epic_key, fam>>, 5)
                  ELSE pos_global,
     negative |-> IF mode = PER_EPIC THEN Widget(w, <<"epic_neg", epic_key, fam>>, 5)
                  ELSE neg_global]

\* selected_epics.append(k); epic_counts[k] = payload
AddBase(acc, epic_key, payload) ==
    [acc EXCEPT !.selected_epics = Append(@, epic_key),
                !.epic_counts = DictPut(@, epic_key, payload)]

\* selected_epics_rider.append(k); epic_counts_rider[k] = payload
AddRider(acc, epic_key, payload) ==
    [acc EXCEPT !.selected_epics_rider = Append(@, epic_key),
                !.epic_counts_rider = DictPut(@, epic_key, payload)]

\* one iteration of the base tab's loop over EPIC_MAP (lines 196-503)
BaseEpic(acc, w, epic_key, mode, pos_global, neg_global) ==
    LET select_all == Widget(w, <<"select_all_epics_master">>, TRUE)
        is_selected == IsSelected(w, epic_key, BASE, select_all)
    IN  CASE epic_key \in PptRangedKeys ->
                LET payload == IF mode = PER_EPIC
                               THEN PptPayloadPerEpic(w, epic_key, BASE, is_selected)
                               ELSE PptPayloadUniform(w, epic_key, BASE, is_selected,
                                                      pos_global, neg_global)
                IN  IF is_selected /\ AnyEnabled(payload)
                    THEN AddBase(acc, epic_key, payload) ELSE acc
          [] epic_key = "PaymentFrequency" ->
                IF is_selected
                THEN AddBase(acc, epic_key,
                             FrequencyPayload(w, epic_key, BASE, is_selected, mode,
                                              pos_global, neg_global))
                ELSE acc
          [] epic_key = "SumAssuredValidation" ->
                IF is_selected
                THEN AddBase(acc, epic_key,
                             SumAssuredPayload(w, epic_key, is_selected,
                                               pos_global, neg_global))
                ELSE acc
          [] OTHER ->
                IF is_selected
                THEN AddBase(acc, epic_key,
                             GenericPayload(w, epic_key, BASE, mode, pos_global, neg_global))
                ELSE acc

\* where the rider tab puts a selected PaymentFrequency (lines 632-638, 766-772)
RiderFrequencyAdd(acc, epic_key, payload) == AddBase(acc, epic_key, payload)

\* one iteration of the rider tab's loop over EPIC_MAP_RIDER (lines 520-823)
RiderEpic(acc, w, epic_key, mode, pos_global, neg_global) ==
    LET select_all_rider == Widget(w, <<"select_all_epics_master_rider">>, TRUE)
        is_selected == IsSelected(w, epic_key, RIDER, select_all_rider)
    IN  CASE epic_key \in PptRangedKeys ->
                LET payload == IF mode = PER_EPIC
                               THEN PptPayloadPerEpic(w, epic_key, RIDER, is_selected)
                               ELSE PptPayloadUniform(w, epic_key, RIDER, is_selected,
                                                      pos_global, neg_global)
                IN  IF is_selected /\ AnyEnabled(payload)
                    THEN AddRider(acc, epic_key, payload) ELSE acc
          [] epic_key = "PaymentFrequency" ->
                IF is_selected
                THEN RiderFrequencyAdd(acc, epic_key,
                                       FrequencyPayload(w, epic_key, RIDER, is_selected, mode,
                                                        pos_global, neg_global))
                ELSE acc
          [] OTHER ->
                IF is_selected
                THEN AddRider(acc, epic_key,
                              GenericPayload(w, epic_key, RIDER, mode, pos_global, neg_global))
                ELSE acc

RECURSIVE BaseLoop(_, _, _, _, _, _, _)
BaseLoop(acc, w, epic_map, i, mode, pos_global, neg_global) ==
    IF i > Len(epic_map) THEN acc
    ELSE BaseLoop(BaseEpic(acc, w, epic_map[i], mode, pos_global, neg_global),
                  w, epic_map, i + 1, mode, pos_global, neg_global)

RECURSIVE RiderLoop(_, _, _, _, _, _, _)
RiderLoop(acc, w, epic_map_rider, i, mode, pos_global, neg_global) ==
    IF i > Len(epic_map_rider) THEN acc
    ELSE RiderLoop(RiderEpic(acc, w, epic_map_rider[i], mode, pos_global, neg_global),
                   w, epic_map_rider, i + 1, mode, pos_global, neg_global)

\* the locals of a script run before the surface (lines 166-170) and before the
\* results are shown
EmptySelection ==
    [epic_counts |-> EmptyDict, selected_epics |-> <<>>,
     epic_counts_rider |-> EmptyDict, selected_epics_rider |-> <<>>,
     logic_module |-> NoneObj, summary |-> NoneObj, sample_df |-> NoneObj,
     styles |-> <<>>]

\* count_mode radio (lines 149-154)
CountMode(w) == Widget(w, <<"count_mode_selector">>, UNIFORM)

\* num_positive_global, num_negative_global (lines 156-162)
GlobalPositive(w) ==
    IF CountMode(w) = UNIFORM THEN Widget(w, <<"Positive Cases">>, 5) ELSE 5

GlobalNegative(w) ==
    IF CountMode(w) = UNIFORM THEN Widget(w, <<"Negative Cases">>, 5) ELSE 5

\* the base tab (lines 185-503): the selection after the loop over EPIC_MAP
BaseTab(acc, w, logic_module) ==
    IF Loaded(logic_module) /\ hasattr(logic_module, "EPIC_MAP")
    THEN BaseLoop(acc, w, logic_module.EPIC_MAP, 1,
                  CountMode(w), GlobalPositive(w), GlobalNegative(w))
    ELSE acc

\* the rider tab (lines 509-823)
RiderTab(acc, w, logic_module) ==
    IF Loaded(logic_module) /\ hasattr(logic_module, "EPIC_MAP_RIDER")
    THEN RiderLoop(acc, w, logic_module.EPIC_MAP_RIDER, 1,
                   CountMode(w), GlobalPositive(w), GlobalNegative(w))
    ELSE acc

\* does drawing the surface raise: the base tab draws the Single Pay inputs of
\* SumAssuredValidation with a minimum above the default maximum
SurfaceRaises(w, module_name_py, df, files) ==
    /\ module_name_py # None /\ module_name_py # <<>> /\ df = NoneObj
    /\ LET logic_module == load_logic_module(module_name_py, files)
       IN  /\ Loaded(logic_module)
           /\ hasattr(logic_module, "EPIC_MAP")
           /\ \E i \in 1..Len(logic_module.EPIC_MAP) :
                /\ logic_module.EPIC_MAP[i] = "SumAssuredValidation"
                /\ SumAssuredRaises(w, logic_module.EPIC_MAP[i])

\* variant: the surface is evaluated whether or not a result is stored
ConfigurationSurfaceOverResults(w, module_name_py, df, files) ==
    IF module_name_py # None /\ module_name_py # <<>>
    THEN LET logic_module == load_logic_module(module_name_py, files)
         IN  RiderTab(BaseTab([EmptySelection EXCEPT !.logic_module = logic_module],
                              w, logic_module),
                      w, logic_module)
    ELSE EmptySelection

\* lines 166-826: the configuration surface is evaluated only with a product
\* selected and no result stored
ConfigurationSurface(w, module_name_py, df, files) ==
    IF module_name_py # None /\ module_name_py # <<>> /\ df = NoneObj
    THEN LET logic_module == load_logic_module(module_name_py, files)
         IN  RiderTab(BaseTab([EmptySelection EXCEPT !.logic_module = logic_module],
                              w, logic_module),
                      w, logic_module)
    ELSE EmptySelection

-----------------------------------------------------------------------------
(* The module directory of the session *)

AbPy == <<"a", "b", ".", "p", "y">>

DunderPy == <<"_", "_", "a", ".", "p", "y">>

CdPy == <<"c", "_", "d", ".", "p", "y">>

BcPy == <<"b", "c", ".", "p", "y">>

DaPy == <<"d", "a", ".", "p", "y">>

SessionListing == <<AbPy, DunderPy, CdPy, BcPy, DaPy>>

\* a module object: attrs is what hasattr answers; the other fields are the
\* attribute values (read only when the attribute is there)
ModuleObject(raises, attrs, name, epic_map, epic_map_rider, gen_callable) ==
    [raises |-> raises, attrs |-> attrs, MODULE_NAME |-> name, EPIC_MAP |-> epic_map,
     EPIC_MAP_RIDER |-> epic_map_rider, gen_callable |-> gen_callable]

SessionDisk ==
    [f \in Range(SessionListing) |->
        CASE f = AbPy ->
                ModuleObject(FALSE, {"EPIC_MAP", "EPIC_MAP_RIDER", "generate_test_cases"}, None,
                             <<"PaymentFrequency", "SumAssuredValidation">>,
                             <<"EntryAge", "PaymentFrequency">>, TRUE)
          [] f = CdPy ->
                ModuleObject(FALSE, {"MODULE_NAME", "EPIC_MAP"}, <<"N", "g">>,
                             <<"Smoker">>, <<>>, FALSE)
          [] f = BcPy ->
                ModuleObject(FALSE, {"EPIC_MAP_RIDER", "generate_test_cases"}, None,
                             <<>>, <<"Smoker">>, TRUE)
          [] f = DaPy -> ModuleObject(TRUE, {}, None, <<>>, <<>>, FALSE)
          [] OTHER -> ModuleObject(FALSE, {}, None, <<>>, <<>>, FALSE)]

\* the module files whose top-level code is edited while the session runs
EditableFiles == {AbPy}

\* data frames a generate_test_cases call returns; the cells of the rule columns
\* are texts, written character by character
DfEmpty == [columns |-> <<>>, rows |-> <<>>]

DfTwo ==
    [columns |-> <<"Test_Type", "Epic", "Rule_1">>,
     rows |-> <<[Test_Type |-> "Positive", Epic |-> "PaymentFrequency",
                 Rule_1 |-> <<"P", "a", "s", "s">>],
                [Test_Type |-> "Negative", Epic |-> "PaymentFrequency",
                 Rule_1 |-> <<"F", "a", "i", "l">>]>>]

ResultSets == {DfEmpty, DfTwo}

-----------------------------------------------------------------------------
(* Showing a stored result *)

Min(a, b) == IF a <= b THEN a ELSE b

\* the elements of a set of numbers in increasing order
RECURSIVE SortedSeq(_)
SortedSeq(S) ==
    IF S = {} THEN <<>>
    ELSE LET least == CHOOSE x \in S : \A y \in S : x <= y
         IN  <<least>> \o SortedSeq(S \ {least})

\* Series.value_counts(): the count of each value that occurs in a column
value_counts(df, column) ==
    LET values == {df.rows[i][column] : i \in 1..Len(df.rows)}
    IN  [v \in values |-> Cardinality({i \in 1..Len(df.rows) : df.rows[i][column] = v})]

\* counts.get(value, default)
CountsGet(counts, value, default) ==
    IF value \in DOMAIN counts THEN counts[value] ELSE default

\* variant: every row that is not positive is reported as negative
display_generation_summaryComplement(df_results) ==
    LET total_cases_summary == Len(df_results.rows)
        positive_cases ==
            IF "Test_Type" \in Range(df_results.columns)
            THEN CountsGet(value_counts(df_results, "Test_Type"), "Positive", 0) ELSE 0
    IN  [total |-> total_cases_summary,
         positive |-> positive_cases,
         negative |-> total_cases_summary - positive_cases,
         epic_counts |-> IF "Epic" \in Range(df_results.columns)
                         THEN value_counts(df_results, "Epic") ELSE <<>>]

\* display_generation_summary (lines 13-35): the three metrics and the
\* distribution by Epic that is charted
display_generation_summary(df_results) ==
    LET total_cases_summary == Len(df_results.rows)
        has_type == "Test_Type" \in Range(df_results.columns)
        test_type_counts == IF has_type THEN value_counts(df_results, "Test_Type") ELSE <<>>
    IN  [total |-> total_cases_summary,
         positive |-> IF has_type THEN CountsGet(test_type_counts, "Positive", 0) ELSE 0,
         negative |-> IF has_type THEN CountsGet(test_type_counts, "Negative", 0) ELSE 0,
         epic_counts |-> IF "Epic" \in Range(df_results.columns)
                         THEN value_counts(df_results, "Epic") ELSE <<>>]

\* 'sub in text'
Contains(text, sub) ==
    \E i \in 1..(Len(text) - Len(sub) + 1) : SubSeq(text, i, i + Len(sub) - 1) = sub

FailText == <<"F", "a", "i", "l">>

PassText == <<"P", "a", "s", "s">>

FailStyle == "background-color: #FFE0E0; color: #A00000;"

PassStyle == "background-color: #E0FFE0; color: #006000;"

\* variant: the pass style is given to every text that contains 'Pass'
get_styleSubstringPass(val_str) ==
    IF Contains(val_str, FailText) THEN FailStyle
    ELSE IF Contains(val_str, PassText) THEN PassStyle
    ELSE ""

\* get_style (lines 38-43)
get_style(val_str) ==
    IF Contains(val_str, FailText) THEN FailStyle
    ELSE IF val_str = PassText THEN PassStyle
    ELSE ""

\* highlight_rule_outcomes (lines 37-44): the styles of the cells of one column
highlight_rule_outcomes(column_cells) ==
    [i \in 1..Len(column_cells) |-> get_style(column_cells[i])]

\* the characters of the column names the frames use
ColumnChars ==
    [Test_Type |-> <<"T", "e", "s", "t", "_", "T", "y", "p", "e">>,
     Epic |-> <<"E", "p", "i", "c">>,
     Rule_1 |-> <<"R", "u", "l", "e", "_", "1">>,
     Ruled |-> <<"R", "u", "l", "e", "d">>]

RulePrefix == <<"R", "u", "l", "e", "_">>

\* rule_columns_to_style (line 886)
rule_columns_to_style(df) ==
    SelectSeq(df.columns, LAMBDA col : StartsWith(ColumnChars[col], RulePrefix))

\* sample_df.style.apply(highlight_rule_outcomes, subset=rule_columns_to_style)
\* (lines 890-893): per styled column, the style of each sampled row
StyledSample(df, sample_df) ==
    [col \in Range(rule_columns_to_style(df)) |->
        highlight_rule_outcomes([i \in 1..Len(sample_df.rows) |-> sample_df.rows[i][col]])]

\* the number of rows shown for review
SampleRows == 10

\* variant: ten rows are asked for whatever the size of the frame
SampleSizeFixed(df) == SampleRows

\* min(10, len(df_to_display)) (line 888)
SampleSize(df) == Min(SampleRows, Len(df.rows))

\* DataFrame.sample(n): n distinct rows drawn at random, or ValueError when n
\* exceeds the number of rows.  index holds the positions of the drawn rows in
\* df; they are listed in increasing order, the order of the draw is not kept.
sample(df, n) ==
    IF n > Len(df.rows)
    THEN {[raised |-> TRUE, index |-> <<>>, rows |-> <<>>]}
    ELSE {LET index == SortedSeq(drawn)
          IN  [raised |-> FALSE, index |-> index,
               rows |-> [i \in 1..n |-> df.rows[index[i]]]] :
            drawn \in {T \in SUBSET (1..Len(df.rows)) : Cardinality(T) = n}}

-----------------------------------------------------------------------------
(* One script run of the session *)

\* truth value of a module identifier ("if st.session_state.selected_module_name_py")
Truthy(name) == name # None /\ name # <<>>

NoCall == [made |-> FALSE, epic_counts |-> EmptyDict, selected_epics |-> <<>>,
           epic_counts_rider |-> EmptyDict, selected_epics_rider |-> <<>>]

\* the last accepted request: the specs the normalizer produced for it, the
\* stored result and the processing flag it was accepted under, the module handle
\* the processing branch loaded for it, and how far it got
NoRequest == [status |-> "none", epic_counts |-> EmptyDict, epic_counts_rider |-> EmptyDict,
              df_before |-> NoneObj, busy |-> FALSE, logic_module |-> NoneObj]

\* the session as one record: st.session_state, and what the run leaves behind
Session ==
    [generated_df |-> generated_df,
     selected_module_name_py |-> selected_module_name_py,
     selected_display_name |-> selected_display_name,
     processing |-> processing,
     epic_counts_to_generate |-> epic_counts_to_generate,
     epic_counts_to_generate_rider |-> epic_counts_to_generate_rider,
     pc |-> "idle", loc |-> EmptySelection, report |-> {}, call |-> call, req |-> req]

\* what the selectbox shows when the user does not touch it (lines 126-136)
SelectboxDefault(available_modules, display_name) ==
    LET display_names == DictKeys(available_modules)
    IN  IF display_name \in Range(display_names) THEN display_name ELSE display_names[1]

\* product selection change handler (lines 138-143)
ProductSwitch(s, selected_display_name_from_ui, available_modules) ==
    [s EXCEPT !.selected_display_name = selected_display_name_from_ui,
              !.selected_module_name_py = DictGet(available_modules, selected_display_name_from_ui),
              !.generated_df = NoneObj,
              !.processing = FALSE,
              !.pc = "rerun",
              !.report = @ \cup {"switched"},
              !.req = IF @.status = "accepted" THEN [@ EXCEPT !.status = "dropped"] ELSE @]

\* entry point returned a data frame (lines 862-863), or raised (lines 864-867);
\* then lines 874-875
GenerationReturns(s, df) ==
    [s EXCEPT !.generated_df = df, !.report = @ \cup {"success"},
              !.processing = FALSE, !.pc = "rerun",
              !.req = [@ EXCEPT !.status = "succeeded"]]

\* variant: a failed run does not release the processing flag
GenerationRaisesKeepsFlag(s) ==
    [s EXCEPT !.generated_df = NoneObj, !.report = @ \cup {"generation_error"},
              !.pc = "rerun",
              !.req = [@ EXCEPT !.status = "failed"]]

\* variant: the except branch leaves a partial frame stored
GenerationRaisesKeepsPartial(s) ==
    [s EXCEPT !.generated_df = DfEmpty, !.report = @ \cup {"generation_error"},
              !.processing = FALSE, !.pc = "rerun",
              !.req = [@ EXCEPT !.status = "failed"]]

GenerationRaises(s) ==
    [s EXCEPT !.generated_df = NoneObj, !.report = @ \cup {"generation_error"},
              !.processing = FALSE, !.pc = "rerun",
              !.req = [@ EXCEPT !.status = "failed"]]

\* the call of line 856-861: the session blocks in the entry point
InvokeEntryPoint(s) ==
    [s EXCEPT !.pc = "in_call",
              !.call = [made |-> TRUE,
                        epic_counts |-> s.epic_counts_to_generate,
                        selected_epics |-> DictKeys(s.epic_counts_to_generate),
                        epic_counts_rider |-> s.epic_counts_to_generate_rider,
                        selected_epics_rider |-> DictKeys(s.epic_counts_to_generate_rider)],
              !.req = [@ EXCEPT !.status = IF @ = "accepted" THEN "invoked"
                                           ELSE "unrequested"]]

\* variant: the branch of a module without entry point skips lines 874-875
NoEntryPointKeepsFlag(s) ==
    [s EXCEPT !.generated_df = NoneObj, !.report = @ \cup {"no_entry_point"},
              !.pc = "rerun",
              !.req = [@ EXCEPT !.status = "no_entry_point"]]

\* lines 868-870 and 871-873, then 874-875
NoEntryPoint(s) ==
    [s EXCEPT !.generated_df = NoneObj, !.report = @ \cup {"no_entry_point"},
              !.processing = FALSE, !.pc = "rerun",
              !.req = [@ EXCEPT !.status = "no_entry_point"]]

LoadFailed(s) ==
    [s EXCEPT !.generated_df = NoneObj, !.report = @ \cup {"load_error", "load_failed"},
              !.processing = FALSE, !.pc = "rerun",
              !.req = [@ EXCEPT !.status = "load_failed"]]

\* may the entry point be called on this module handle (line 854)
HasEntryPoint(logic_module) ==
    hasattr(logic_module, "generate_test_cases") /\ logic_module.gen_callable

\* variant: the entry point is called on any module that loads
ProcessingBranchUnchecked(s, files) ==
    LET logic_module == load_logic_module(s.selected_module_name_py, files)
        t == [s EXCEPT !.req.logic_module = logic_module]
    IN  IF Loaded(logic_module) THEN InvokeEntryPoint(t) ELSE LoadFailed(t)

\* the processing branch (lines 850-875) up to the call of the entry point
ProcessingBranch(s, files) ==
    LET logic_module == load_logic_module(s.selected_module_name_py, files)
        t == [s EXCEPT !.req.logic_module = logic_module]
    IN  IF Loaded(logic_module)
        THEN IF HasEntryPoint(logic_module) THEN InvokeEntryPoint(t) ELSE NoEntryPoint(t)
        ELSE LoadFailed(t)

\* Main Canvas Logic (lines 850-928)
MainCanvas(s, files) ==
    IF s.processing /\ Truthy(s.selected_module_name_py)
    THEN ProcessingBranch(s, files)
    ELSE IF s.generated_df # NoneObj
    THEN [s EXCEPT !.report = @ \cup {"results"}]
    ELSE IF ~Truthy(s.selected_module_name_py)
    THEN [s EXCEPT !.report = @ \cup {"welcome"}]
    ELSE [s EXCEPT !.report = @ \cup {"configure"}]

\* variant: the button is never disabled
ButtonClickedAlways(clicked, disabled) == clicked

\* st.button(..., disabled=st.session_state.processing): a click on a disabled
\* button is not delivered (lines 832, 844)
ButtonClicked(clicked, disabled) == clicked /\ ~disabled

\* variant: only the base spec is stored for the run
AcceptRequestBaseOnly(s) ==
    [s EXCEPT !.processing = TRUE,
              !.epic_counts_to_generate = s.loc.epic_counts,
              !.pc = "rerun",
              !.report = @ \cup {"accepted"},
              !.req = [status |-> "accepted",
                       epic_counts |-> s.loc.epic_counts,
                       epic_counts_rider |-> s.loc.epic_counts_rider,
                       df_before |-> s.generated_df,
                       busy |-> s.processing,
                       logic_module |-> NoneObj]]

\* lines 838-841: the request is accepted
AcceptRequest(s) ==
    [s EXCEPT !.processing = TRUE,
              !.epic_counts_to_generate = s.loc.epic_counts,
              !.epic_counts_to_generate_rider = s.loc.epic_counts_rider,
              !.pc = "rerun",
              !.report = @ \cup {"accepted"},
              !.req = [status |-> "accepted",
                       epic_counts |-> s.loc.epic_counts,
                       epic_counts_rider |-> s.loc.epic_counts_rider,
                       df_before |-> s.generated_df,
                       busy |-> s.processing,
                       logic_module |-> NoneObj]]

\* variant: the request is not checked for selected epics
AnyEpicSelectedUnchecked(selection) == TRUE

\* has the user selected an epic in either tab (line 835)
AnyEpicSelected(selection) ==
    selection.selected_epics # <<>> \/ selection.selected_epics_rider # <<>>

\* variant: Clear Results releases the flag but keeps the stored frame
ClearResultsKeepsFrame(s) ==
    [s EXCEPT !.processing = FALSE, !.pc = "rerun", !.report = @ \cup {"cleared"}]

\* Clear Results & Start Over (lines 845-847)
ClearResults(s) ==
    [s EXCEPT !.generated_df = NoneObj, !.processing = FALSE, !.pc = "rerun",
              !.report = @ \cup {"cleared"}]

\* sidebar buttons (lines 829-847), then the main canvas
SidebarButtons(s0, click, files) ==
    LET s == [s0 EXCEPT !.report = @ \cup (IF click = "generate" /\ s0.processing
                                           THEN {"generate_disabled"} ELSE {})]
    IN  IF ButtonClicked(click = "generate", s.processing)
        THEN IF ~Truthy(s.selected_module_name_py)
             THEN MainCanvas([s EXCEPT !.report = @ \cup {"generate_clicked", "warn_product"}],
                             files)
             ELSE IF ~AnyEpicSelected(s.loc)
             THEN MainCanvas([s EXCEPT !.report = @ \cup {"generate_clicked", "warn_epics"}],
                             files)
             ELSE AcceptRequest([s EXCEPT !.report = @ \cup {"generate_clicked"}])
        ELSE IF s.generated_df # NoneObj /\ ButtonClicked(click = "clear", s.processing)
        THEN ClearResults(s)
        ELSE MainCanvas(s, files)

\* the messages load_logic_module leaves on the configuration surface (lines 73-75)
SurfaceReport(s, files) ==
    IF /\ Truthy(s.selected_module_name_py)
       /\ s.generated_df = NoneObj
       /\ ~Loaded(load_logic_module(s.selected_module_name_py, files))
    THEN {"load_error"} ELSE {}

\* a new run starts: a request settled by an earlier run, and the call made for
\* it, are history
Forget(s) ==
    [s EXCEPT !.req = IF @.status = "accepted" THEN @ ELSE NoRequest,
              !.call = NoCall]

\* the script from the top (lines 109-928) for one rerun: sel is what the
\* selectbox returns, click the button pressed, w the widget values; an
\* exception on the surface ends the run there, before the sidebar buttons
RunScript(s0, sel, click, w, available_modules, files) ==
    LET s == Forget(s0)
    IN  IF available_modules = EmptyDict
        THEN [s EXCEPT !.report = {"no_modules"}]
        ELSE IF sel # s.selected_display_name
        THEN ProductSwitch(s, sel, available_modules)
        ELSE IF SurfaceRaises(w, s.selected_module_name_py, s.generated_df, files)
        THEN [s EXCEPT !.report = {"exception"}]
        ELSE SidebarButtons(
                [s EXCEPT !.loc = ConfigurationSurface(w, s.selected_module_name_py,
                                                       s.generated_df, files),
                          !.report = SurfaceReport(s, files)],
                click, files)

\* the variables after a script run that ends in state s
Commit(s, w, available_modules) ==
    /\ generated_df' = s.generated_df
    /\ selected_module_name_py' = s.selected_module_name_py
    /\ selected_display_name' = s.selected_display_name
    /\ processing' = s.processing
    /\ epic_counts_to_generate' = s.epic_counts_to_generate
    /\ epic_counts_to_generate_rider' = s.epic_counts_to_generate_rider
    /\ pc' = s.pc
    /\ loc' = s.loc
    /\ report' = s.report
    /\ call' = s.call
    /\ req' = s.req
    /\ ui' = w
    /\ modules' = available_modules
    /\ UNCHANGED <<listing, disk>>

\* the results branch of the main canvas (lines 877-889): the ways a run that
\* shows the stored frame can end, one per sample drawn
ShowResults(s) ==
    IF "results" \in s.report
    THEN {[s EXCEPT !.loc.summary = display_generation_summary(s.generated_df),
                    !.loc.sample_df = sample_df,
                    !.loc.styles = StyledSample(s.generated_df, sample_df)] :
            sample_df \in sample(s.generated_df, SampleSize(s.generated_df))}
    ELSE {s}

ScriptRun(sel, click, w) ==
    LET available_modules == get_available_logic_modules(listing, disk)
    IN  \E s \in ShowResults(RunScript(Session, sel, click, w, available_modules, disk)) :
            Commit(s, w, available_modules)

\* the call of the entry point with a base and a rider spec (lines 856-861)
CallOf(epic_counts, epic_counts_rider) ==
    [made |-> TRUE,
     epic_counts |-> epic_counts, selected_epics |-> DictKeys(epic_counts),
     epic_counts_rider |-> epic_counts_rider,
     selected_epics_rider |-> DictKeys(epic_counts_rider)]

\* what the selectbox returns in a run in which the user leaves it alone
CurrentProduct ==
    LET available_modules == get_available_logic_modules(listing, disk)
    IN  IF available_modules = EmptyDict THEN selected_display_name
        ELSE SelectboxDefault(available_modules, selected_display_name)

-----------------------------------------------------------------------------
(* The user and the environment *)

\* is the tab of a family on screen, and over which epic map
SurfaceMap(fam) ==
    LET logic_module == load_logic_module(selected_module_name_py, disk)
        attr == IF fam = BASE THEN "EPIC_MAP" ELSE "EPIC_MAP_RIDER"
    IN  IF /\ Truthy(selected_module_name_py)
           /\ generated_df = NoneObj
           /\ Loaded(logic_module)
           /\ hasattr(logic_module, attr)
        THEN {IF fam = BASE THEN logic_module.EPIC_MAP ELSE logic_module.EPIC_MAP_RIDER}
        ELSE {}

OnSurface(fam, epic_key) == \E epic_map \in SurfaceMap(fam) : epic_key \in Range(epic_map)

\* did the last drawing of the surface end in an exception
SurfaceRaised == SurfaceRaises(ui, selected_module_name_py, generated_df, disk)

\* is the row of an epic drawn: on the surface, and not after the point where
\* drawing stopped
Drawn(fam, epic_key) ==
    /\ OnSurface(fam, epic_key)
    /\ SurfaceRaised =>
            /\ fam = BASE
            /\ \E epic_map \in SurfaceMap(BASE) :
                    \E i, j \in 1..Len(epic_map) :
                        /\ i < j
                        /\ epic_map[i] = epic_key
                        /\ epic_map[j] = "SumAssuredValidation"

\* is the widget with this key drawn by the script in the current state
Rendered(key) ==
    CASE key[1] = "count_mode_selector" -> TRUE
      [] key[1] \in {"Positive Cases", "Negative Cases"} -> CountMode(ui) = UNIFORM
      [] key[1] = "select_all_epics_master" -> SurfaceMap(BASE) # {}
      [] key[1] = "select_all_epics_master_rider" -> SurfaceMap(RIDER) # {} /\ ~SurfaceRaised
      [] key[1] = "epic_cb" -> Drawn(key[3], key[2])
      [] key[1] = "freq_cb" -> Drawn(key[3], "PaymentFrequency")
      [] key[1] \in {"epic_pos", "epic_neg"} ->
            /\ Len(key) = 3
            /\ CountMode(ui) = PER_EPIC
            /\ Drawn(key[3], key[2])
            /\ key[2] \notin PptRangedKeys
            /\ ~(key[2] = "SumAssuredValidation" /\ key[3] = BASE)
      [] key[1] = "min_sp" -> OnSurface(BASE, key[2])
      [] key[1] = "max_sp" -> OnSurface(BASE, key[2]) /\ ~SurfaceRaised
      [] OTHER -> FALSE

\* the identity of the widget the user edits: for Max SinglePay the key and the
\* min_value it is drawn with
WidgetId(w, key) ==
    IF key[1] = "max_sp"
    THEN Append(key, MaxSinglePayMin(Widget(w, <<"min_sp", key[2]>>, 2500000)))
    ELSE key

\* the page accepts a number in Max SinglePay only from its min_value up
Enterable(w, key, value) ==
    key[1] = "max_sp" => value >= MaxSinglePayMin(Widget(w, <<"min_sp", key[2]>>, 2500000))

\* the widget values kept from one run to the next: the value of a Max
\* SinglePay input that is no longer drawn with the same min_value is dropped
Live(w) ==
    [id \in {i \in DOMAIN w : i[1] = "max_sp" => i = WidgetId(w, <<i[1], i[2]>>)} |-> w[id]]

CountValues == {5} \cup 0..MaxCount

\* the widgets the user edits, each with the values it can be set to
UserEdits ==
    ({<<"count_mode_selector">>} \X {UNIFORM, PER_EPIC})
    \cup ({<<"Positive Cases">>, <<"epic_pos", "PaymentFrequency", RIDER>>} \X CountValues)
    \cup ({<<"select_all_epics_master">>, <<"select_all_epics_master_rider">>,
           <<"epic_cb", "PaymentFrequency", BASE>>, <<"epic_cb", "PaymentFrequency", RIDER>>,
           <<"freq_cb", "Annual", RIDER>>} \X BOOLEAN)

Init ==
    /\ listing = SessionListing
    /\ disk = SessionDisk
    /\ generated_df = NoneObj
    /\ selected_module_name_py = None
    /\ selected_display_name = None
    /\ processing = FALSE
    /\ epic_counts_to_generate = EmptyDict
    /\ epic_counts_to_generate_rider = EmptyDict
    /\ ui = <<>>
    /\ pc = "start"
    /\ loc = EmptySelection
    /\ report = {}
    /\ call = NoCall
    /\ req = NoRequest
    /\ modules = EmptyDict

\* the script runs again without a user action (first run, st.rerun())
Rerun ==
    /\ pc \in {"start", "rerun"}
    /\ ScriptRun(CurrentProduct, "none", ui)

\* the user presses Generate Test Cases (the button is on the page unless the
\* last run ended in an exception before it)
ClickGenerate ==
    /\ pc \in {"idle", "rerun"}
    /\ "exception" \notin report
    /\ ScriptRun(CurrentProduct, "generate", ui)

\* the user presses Clear Results & Start Over
ClickClear ==
    /\ pc = "idle"
    /\ generated_df # NoneObj
    /\ ScriptRun(CurrentProduct, "clear", ui)

\* the user picks another product in the selectbox
SelectProduct(display_name) ==
    /\ pc = "idle"
    /\ display_name \in Range(DictKeys(get_available_logic_modules(listing, disk)))
    /\ display_name # selected_display_name
    /\ ScriptRun(display_name, "none", ui)

\* the user sets one widget of the sidebar or the configuration surface
SetWidget(key, value) ==
    /\ pc = "idle"
    /\ Rendered(key)
    /\ Enterable(ui, key, value)
    /\ LET w == Live((WidgetId(ui, key) :> value) @@ ui)
       IN  /\ Cardinality(DOMAIN w) <= MaxEdits
           /\ ScriptRun(CurrentProduct, "none", w)

\* the blocking call of the entry point ends
GenerationReturn(df) ==
    /\ pc = "in_call"
    /\ Commit(GenerationReturns([Session EXCEPT !.loc = loc, !.report = report], df),
              ui, modules)

GenerationRaise ==
    /\ pc = "in_call"
    /\ Commit(GenerationRaises([Session EXCEPT !.loc = loc, !.report = report]), ui, modules)

\* a module file is edited on disk: its top-level code now raises, or no longer does
EditModule(filename) ==
    /\ pc \in {"idle", "rerun"}
    /\ disk' = [disk EXCEPT ![filename].raises = ~@]
    /\ UNCHANGED <<listing, generated_df, selected_module_name_py, selected_display_name,
                   processing, epic_counts_to_generate, epic_counts_to_generate_rider,
                   ui, pc, loc, report, call, req, modules>>

Next ==
    \/ Rerun
    \/ ClickGenerate
    \/ ClickClear
    \/ \E display_name \in Range(DictKeys(modules)) : SelectProduct(display_name)
    \/ \E e \in UserEdits : SetWidget(e[1], e[2])
    \/ \E df \in ResultSets : GenerationReturn(df)
    \/ GenerationRaise
    \/ \E filename \in EditableFiles : EditModule(filename)

Spec == Init /\ [][Next]_vars

-----------------------------------------------------------------------------
(* The session of a user who edits the Single Pay limits *)

\* the minimum and the maximum of the Single Pay tier, and the count mode
TierEdits ==
    ({<<"min_sp", "SumAssuredValidation">>} \X {4000000, 6000000})
    \cup ({<<"max_sp", "SumAssuredValidation">>} \X {3000000, 4500000, 7000000})
    \cup ({<<"count_mode_selector">>} \X {UNIFORM, PER_EPIC})

NextTiers ==
    \/ Rerun
    \/ ClickGenerate
    \/ ClickClear
    \/ \E e \in TierEdits : SetWidget(e[1], e[2])
    \/ \E df \in ResultSets : GenerationReturn(df)
    \/ GenerationRaise

SpecTiers == Init /\ [][NextTiers]_vars

-----------------------------------------------------------------------------
(* Generation runs to their end *)

\* the session of a user who leaves the widgets as they are
NextRuns ==
    \/ Rerun
    \/ ClickGenerate
    \/ ClickClear
    \/ \E display_name \in Range(DictKeys(modules)) : SelectProduct(display_name)
    \/ \E df \in ResultSets : GenerationReturn(df)
    \/ GenerationRaise
    \/ \E filename \in EditableFiles : EditModule(filename)

\* st.rerun() (lines 143, 841, 847, 875) and the first run start the script
\* again without waiting for the user; the entry point returns or raises
SpecRuns ==
    /\ Init /\ [][NextRuns]_vars
    /\ WF_vars(Rerun)
    /\ WF_vars(GenerationRaise \/ \E df \in ResultSets : GenerationReturn(df))

-----------------------------------------------------------------------------
(* The range control of one PPT row *)

\* a PPT row of a PPT-ranged epic in either tab and either count mode, before
\* its slider is drawn
InitSliders ==
    /\ listing = SessionListing
    /\ disk = SessionDisk
    /\ generated_df = NoneObj
    /\ selected_module_name_py = None
    /\ selected_display_name = None
    /\ processing = FALSE
    /\ epic_counts_to_generate = EmptyDict
    /\ epic_counts_to_generate_rider = EmptyDict
    /\ ui \in {(<<"count_mode_selector">> :> count_mode) : count_mode \in {UNIFORM, PER_EPIC}}
    /\ pc = "row"
    /\ loc \in {[epic_key |-> epic_key, ppt |-> ppt, fam |-> fam, slider |-> NoneObj] :
                    epic_key \in PptRangedKeys, ppt \in PPT, fam \in {BASE, RIDER}}
    /\ report = {}
    /\ call = NoCall
    /\ req = NoRequest
    /\ modules = EmptyDict

\* the st.slider call of the row
DrawSlider ==
    /\ pc = "row"
    /\ loc' = [loc EXCEPT !.slider = SliderCall(loc.epic_key, loc.ppt, loc.fam)]
    /\ pc' = "drawn"
    /\ UNCHANGED <<listing, disk, generated_df, selected_module_name_py, selected_display_name,
                   processing, epic_counts_to_generate, epic_counts_to_generate_rider,
                   ui, report, call, req, modules>>

NextSliders == DrawSlider

SpecSliders == InitSliders /\ [][NextSliders]_vars

-----------------------------------------------------------------------------
(* Sessions over directories with unusual module names *)

\* a module file whose name is only the extension: filename[:-3] is ""
DotPyModule ==
    ModuleObject(FALSE, {"EPIC_MAP", "generate_test_cases"}, None, <<"Smoker">>, <<>>, TRUE)

\* a module that sets MODULE_NAME = None
UnnamedModule ==
    ModuleObject(FALSE, {"MODULE_NAME", "EPIC_MAP", "generate_test_cases"}, None,
                 <<"Smoker">>, <<>>, TRUE)

\* the directories: ".py" next to ab.py, listed in either order, and ab.py alone
\* with MODULE_NAME = None
OddDirectories ==
    {[listing |-> <<DotPy, AbPy>>, disk |-> (DotPy :> DotPyModule) @@ (AbPy :> SessionDisk[AbPy])],
     [listing |-> <<AbPy, DotPy>>, disk |-> (DotPy :> DotPyModule) @@ (AbPy :> SessionDisk[AbPy])],
     [listing |-> <<AbPy>>, disk |-> (AbPy :> UnnamedModule)]}

InitOddNames ==
    /\ \E dir \in OddDirectories : listing = dir.listing /\ disk = dir.disk
    /\ generated_df = NoneObj
    /\ selected_module_name_py = None
    /\ selected_display_name = None
    /\ processing = FALSE
    /\ epic_counts_to_generate = EmptyDict
    /\ epic_counts_to_generate_rider = EmptyDict
    /\ ui = <<>>
    /\ pc = "start"
    /\ loc = EmptySelection
    /\ report = {}
    /\ call = NoCall
    /\ req = NoRequest
    /\ modules = EmptyDict

SpecOddNames == InitOddNames /\ [][NextRuns]_vars

-----------------------------------------------------------------------------
(* The registry over arbitrary small directories *)

ABMixedPy == <<"a", "B", ".", "p", "y">>

NotesTxt == <<"n", ".", "t", "x", "t">>

RegistryFileNames == {AbPy, ABMixedPy, CdPy, DunderPy, NotesTxt}

\* what a module file may contain: top-level code that raises, or a module with
\* or without a MODULE_NAME
RegistryContents ==
    {ModuleObject(TRUE, {}, None, <<>>, <<>>, FALSE),
     ModuleObject(FALSE, {"EPIC_MAP"}, None, <<>>, <<>>, FALSE),
     ModuleObject(FALSE, {"MODULE_NAME", "EPIC_MAP"}, <<"A", "b">>, <<>>, <<>>, FALSE),
     ModuleObject(FALSE, {"MODULE_NAME", "EPIC_MAP"}, <<"N", "g">>, <<>>, <<>>, FALSE)}

NotAModule == ModuleObject(FALSE, {}, None, <<>>, <<>>, FALSE)

\* directory listings: up to MaxFiles distinct file names, in any order
Listings ==
    {names \in UNION {[1..n -> RegistryFileNames] : n \in 0..MaxFiles} :
        \A i, j \in 1..Len(names) : i # j => names[i] # names[j]}

InitRegistry ==
    /\ listing \in Listings
    /\ disk \in {files \in [Range(listing) -> RegistryContents \cup {NotAModule}] :
                    \A f \in Range(listing) : IsModuleFile(f) <=> files[f] # NotAModule}
    /\ generated_df = NoneObj
    /\ selected_module_name_py = None
    /\ selected_display_name = None
    /\ processing = FALSE
    /\ epic_counts_to_generate = EmptyDict
    /\ epic_counts_to_generate_rider = EmptyDict
    /\ ui = <<>>
    /\ pc = "start"
    /\ loc = EmptySelection
    /\ report = {}
    /\ call = NoCall
    /\ req = NoRequest
    /\ modules = EmptyDict

\* line 121: available_modules = get_available_logic_modules()
ListModules ==
    /\ pc = "start"
    /\ modules' = get_available_logic_modules(listing, disk)
    /\ pc' = "listed"
    /\ UNCHANGED <<listing, disk, generated_df, selected_module_name_py, selected_display_name,
                   processing, epic_counts_to_generate, epic_counts_to_generate_rider,
                   ui, loc, report, call, req>>

NextRegistry == ListModules

SpecRegistry == InitRegistry /\ [][NextRegistry]_vars

-----------------------------------------------------------------------------
(* The normalizer over the widget values of a configured surface *)

\* per-epic count inputs are left at 5 or set to a value in 0..MaxCount
EnteredCounts == 0..MaxCount

\* all six "Enable" boxes of a PPT-ranged epic unticked (name is the key prefix
\* of the count mode: ppt_enabled or ppt_enabled_all)
AllVariantsOff(name, epic_key, fam) ==
    [key \in {<<name, epic_key, ppt, fam>> : ppt \in PPT} |-> FALSE]

\* the frequency boxes of a tab ticked for exactly the names in on
OnlyFrequencies(on, fam) ==
    [key \in {<<"freq_cb", freq, fam>> : freq \in Range(frequency_options)} |-> key[2] \in on]

\* what the user does on the sidebar and the surface before a run, one gesture
\* at a time: each gesture sets the widgets of its domain
Gestures ==
    {<<"count_mode_selector">> :> PER_EPIC}
    \cup {(<<"Positive Cases">> :> 3) @@ (<<"Negative Cases">> :> 2)}
    \cup {key :> v : key \in {<<"Positive Cases">>, <<"Negative Cases">>}, v \in EnteredCounts}
    \cup {key :> FALSE : key \in {<<"select_all_epics_master">>,
                                  <<"select_all_epics_master_rider">>}}
    \cup {<<"epic_cb", epic_key, fam>> :> FALSE :
            epic_key \in {"EntryAge", "PaymentFrequency", "SumAssuredValidation", "Smoker"},
            fam \in {BASE, RIDER}}
    \cup {<<"epic_cb", epic_key, fam>> :> TRUE :
            epic_key \in {"EntryAge", "PaymentFrequency"}, fam \in {BASE, RIDER}}
    \cup {AllVariantsOff(name, epic_key, fam) :
            name \in {"ppt_enabled", "ppt_enabled_all"},
            epic_key \in {"EntryAge", "MaturityAge"}, fam \in {BASE, RIDER}}
    \cup {<<name, "EntryAge", "Regular Pay", fam>> :> b :
            name \in {"ppt_enabled", "ppt_enabled_all"}, fam \in {BASE, RIDER}, b \in BOOLEAN}
    \cup {OnlyFrequencies({"Monthly", "Annual"}, fam) : fam \in {BASE, RIDER}}
    \cup {<<"freq_cb", "Single Pay", fam>> :> b : fam \in {BASE, RIDER}, b \in BOOLEAN}
    \cup {<<name, epic_key, fam>> :> v :
            name \in {"epic_pos", "epic_neg"},
            epic_key \in {"PaymentFrequency", "Smoker", "SumAssuredValidation"},
            fam \in {BASE, RIDER}, v \in EnteredCounts}
    \cup {<<name, "EntryAge", "Regular Pay", fam>> :> v :
            name \in {"epic_pos", "epic_neg"}, fam \in {BASE, RIDER}, v \in EnteredCounts}
    \cup {<<name, "SumAssuredValidation">> :> FALSE : name \in {"sa_enabled", "oth_enabled"}}
    \cup {<<name, "SumAssuredValidation">> :> v :
            name \in {"pos_sp", "neg_sp", "pos_oth", "neg_oth"}, v \in EnteredCounts}
    \cup {<<"entry_age_slider", "EntryAge", "Regular Pay", fam>> :> <<20, 60>> :
            fam \in {BASE, RIDER}}

\* the widget values after at most n gestures
RECURSIVE WidgetStores(_)
WidgetStores(n) ==
    IF n = 0 THEN {<<>>}
    ELSE LET before == WidgetStores(n - 1)
         IN  before \cup {g @@ w : g \in Gestures, w \in before}

\* the epic maps of the products the surface is configured for
NormalizerModules ==
    {ModuleObject(FALSE, {"EPIC_MAP", "EPIC_MAP_RIDER", "generate_test_cases"}, None,
                  <<"EntryAge", "PaymentFrequency", "SumAssuredValidation", "Smoker">>,
                  <<"EntryAge", "PaymentFrequency", "SumAssuredValidation", "Smoker">>, TRUE),
     ModuleObject(FALSE, {"EPIC_MAP", "EPIC_MAP_RIDER", "generate_test_cases"}, None,
                  <<"SumAssuredValidation", "MaturityAge", "Smoker">>,
                  <<"MaturityAge", "PaymentFrequency">>, TRUE),
     ModuleObject(FALSE, {"EPIC_MAP", "generate_test_cases"}, None,
                  <<"PaymentFrequency", "EntryAge">>, <<>>, TRUE)}

\* a session with one product, selected, whose surface the user has configured;
\* the script is about to run
InitNormalizer ==
    /\ listing = <<AbPy>>
    /\ disk \in [{AbPy} -> NormalizerModules]
    /\ modules = get_available_logic_modules(listing, disk)
    /\ selected_display_name = DictKeys(modules)[1]
    /\ selected_module_name_py = DictGet(modules, selected_display_name)
    /\ generated_df = NoneObj
    /\ processing = FALSE
    /\ epic_counts_to_generate = EmptyDict
    /\ epic_counts_to_generate_rider = EmptyDict
    /\ ui \in WidgetStores(MaxGestures)
    /\ pc = "rerun"
    /\ loc = EmptySelection
    /\ report = {}
    /\ call = NoCall
    /\ req = NoRequest

NextNormalizer == Rerun

SpecNormalizer == InitNormalizer /\ [][NextNormalizer]_vars

-----------------------------------------------------------------------------
(* Showing the frames a generation run can return *)

ResultEpics == <<"EntryAge", "Smoker">>

\* the texts a rule column holds
RuleTexts ==
    <<<<"P", "a", "s", "s">>,
      <<"F", "a", "i", "l">>,
      <<"P", "a", "s", "s", "e", "d">>,
      <<"p", "a", "s", "s">>,
      <<"f", "a", "i", "l">>,
      <<"F", "a", "i", "l", ":", " ", "a", "g", "e">>,
      <<"P", "a", "s", "s", "F", "a", "i", "l">>,
      <<>>>>

\* a frame of n rows over the given columns: positive rows, then negative rows,
\* then rows of another test type; the Epic alternates, the rule columns and the
\* column Ruled go through RuleTexts
Frame(columns, n, positive, negative) ==
    [columns |-> columns,
     rows |-> [i \in 1..n |->
                [c \in Range(columns) |->
                    CASE c = "Test_Type" ->
                            IF i <= positive THEN "Positive"
                            ELSE IF i <= positive + negative THEN "Negative" ELSE "Edge"
                      [] c = "Epic" -> ResultEpics[(i % 2) + 1]
                      [] OTHER -> RuleTexts[(i % Len(RuleTexts)) + 1]]]]

Frames ==
    {Frame(columns, n, positive, negative) :
        columns \in {<<>>, <<"Epic", "Ruled">>, <<"Test_Type", "Rule_1">>,
                     <<"Test_Type", "Epic", "Rule_1", "Ruled">>},
        n \in 0..MaxRows,
        positive \in 0..MaxRows,
        negative \in 0..MaxRows}

\* a session whose generation run for the first product has just returned a
\* frame; the script is about to run again
InitResults ==
    /\ listing = SessionListing
    /\ disk = SessionDisk
    /\ modules = get_available_logic_modules(listing, disk)
    /\ selected_display_name = DictKeys(modules)[1]
    /\ selected_module_name_py = DictGet(modules, selected_display_name)
    /\ ui = <<>>
    /\ loc = ConfigurationSurface(ui, selected_module_name_py, NoneObj, disk)
    /\ epic_counts_to_generate = loc.epic_counts
    /\ epic_counts_to_generate_rider = loc.epic_counts_rider
    /\ call = CallOf(loc.epic_counts, loc.epic_counts_rider)
    /\ req = [status |-> "succeeded", epic_counts |-> loc.epic_counts,
              epic_counts_rider |-> loc.epic_counts_rider, df_before |-> NoneObj,
              busy |-> FALSE, logic_module |-> loc.logic_module]
    /\ generated_df \in Frames
    /\ processing = FALSE
    /\ report = {"success"}
    /\ pc = "rerun"

NextResults == Rerun

SpecResults == InitResults /\ [][NextResults]_vars


\* C1: every accepted generate request whose module loads and has a callable
\* generate_test_cases leads to exactly one call of that entry point before the
\* session is idle again, with the base and rider specs the normalizer produced
\* in the accepting run; no call is made that no freshly accepted request asked for.
C1_InvokedOnceWithAcceptedSpecs ==
    /\ req.status \notin {"unrequested", "dropped"}
    /\ pc = "idle" => req.status # "accepted"
    /\ (pc = "in_call") <=> (req.status = "invoked")
    /\ req.status \in {"load_failed", "no_entry_point"} =>
            ~(Loaded(req.logic_module) /\ HasEntryPoint(req.logic_module))
    /\ req.status \in {"invoked", "succeeded", "failed"} =>
            call = CallOf(req.epic_counts, req.epic_counts_rider)
    /\ call.made => req.status \in {"invoked", "succeeded", "failed"}

\* C1 witness: the entry point is being called for an accepted request with a
\* base and a rider spec
C1_Witness ==
    /\ pc = "in_call"
    /\ req.status = "invoked"
    /\ call.epic_counts # EmptyDict
    /\ call.epic_counts_rider # EmptyDict

\* C2: a generate request is accepted only while the processing flag is false;
\* while the flag is true a click on Generate is rejected and leaves nothing
\* behind: the flag is true only for the one request being processed, and the
\* call in flight is the call for that request.
C2_AcceptedOnlyWhenNotProcessing ==
    /\ req.status = "accepted" => ~req.busy /\ processing /\ pc = "rerun"
    /\ processing => \/ pc = "rerun" /\ req.status = "accepted"
                     \/ pc = "in_call" /\ req.status = "invoked"
    /\ pc = "in_call" =>
            /\ processing
            /\ "accepted" \notin report
            /\ epic_counts_to_generate = req.epic_counts
            /\ epic_counts_to_generate_rider = req.epic_counts_rider

\* C2 witness: Generate was clicked while the flag was set, and the run went on
\* to the one call of the request in progress
C2_Witness == pc = "in_call" /\ "generate_disabled" \in report

\* C3: after a run in which the entry point raised, the stored ResultSet equals
\* the one stored when the request was made, and the processing flag is false.
C3_FailedRunKeepsPriorResult ==
    req.status = "failed" => generated_df = req.df_before /\ ~processing

\* C3 witness: the entry point has raised
C3_Witness == req.status = "failed" /\ "generation_error" \in report

\* C4: when the entry point raises, the run goes on (the exception is caught),
\* no ResultSet is stored afterwards, and the entry point is called again only
\* for a newly accepted request.
C4_FailureClearsResultNoRetry ==
    /\ req.status = "failed" =>
            /\ generated_df = NoneObj
            /\ pc = "rerun"
            /\ "generation_error" \in report
    /\ pc = "in_call" => req.status = "invoked" /\ "generation_error" \notin report

\* C4 witness: the entry point has raised on a non-empty base spec
C4_Witness == req.status = "failed" /\ call.made /\ call.epic_counts # EmptyDict

\* C5: a generate request made while both specs are empty is rejected: no call,
\* processing stays false, the stored ResultSet and the stored specs stay as they
\* are; and the entry point is never called with both specs empty.
C5_EmptyRequestRejected ==
    /\ [](call.made => ~(call.epic_counts = EmptyDict /\ call.epic_counts_rider = EmptyDict))
    /\ [][("generate_clicked" \in report'
            /\ loc'.epic_counts = EmptyDict /\ loc'.epic_counts_rider = EmptyDict)
          => /\ "warn_epics" \in report'
             /\ ~processing'
             /\ pc' # "in_call"
             /\ call' = NoCall
             /\ UNCHANGED <<generated_df, epic_counts_to_generate,
                            epic_counts_to_generate_rider>>]_vars

\* C5 witness: Generate was clicked with no epic selected in either tab of a
\* product whose configuration surface is on screen
C5_Witness ==
    /\ "warn_epics" \in report
    /\ Loaded(loc.logic_module)
    /\ loc.epic_counts = EmptyDict
    /\ loc.epic_counts_rider = EmptyDict

\* C6: in a generation run, a module that fails to load or has no callable
\* generate_test_cases is not called, and the run's message is a contract
\* violation message, never the message of an entry point that raised.
C6_ContractViolationNotInvoked ==
    /\ pc = "in_call" => Loaded(req.logic_module) /\ HasEntryPoint(req.logic_module)
    /\ req.status \in {"load_failed", "no_entry_point"} =>
            /\ ~call.made
            /\ generated_df = NoneObj
            /\ report \cap {"generation_error", "success"} = {}
            /\ req.status \in report
    /\ req.status = "failed" =>
            /\ report \cap {"load_failed", "no_entry_point"} = {}
            /\ "generation_error" \in report

\* C6 witness: the module of an accepted request failed to load in the
\* generation run
C6_Witness == req.status = "load_failed" /\ "load_failed" \in report

\* C7 (as claimed): the entry point is never called on a module without EPIC_MAP.
C7_NoGenerationWithoutEpicMap ==
    pc = "in_call" => hasattr(req.logic_module, "EPIC_MAP")

\* C8 (as claimed): a product switch never leaves a module that fails to load
\* as the selected product.
C8_FailedSelectionAborted ==
    [][selected_display_name' # selected_display_name
       => Loaded(load_logic_module(selected_module_name_py', disk'))]_vars

\* C9 (as claimed): every module file of the directory has its identifier among
\* the values of the mapping get_available_logic_modules returns.
C9_EveryModuleListed ==
    pc = "listed" =>
        \A i \in 1..Len(listing) :
            IsModuleFile(listing[i]) => ModuleNamePy(listing[i]) \in DictValues(modules)

\* C10 (as claimed): with PaymentFrequency in both maps, the base spec and the
\* base key list are what the base tab alone produces, and a selected rider
\* PaymentFrequency is in the rider spec.
C10_FrequencyNormalizedIndependently ==
    LET logic_module == loc.logic_module
    IN  (/\ Loaded(logic_module)
         /\ hasattr(logic_module, "EPIC_MAP")
         /\ hasattr(logic_module, "EPIC_MAP_RIDER")
         /\ "PaymentFrequency" \in Range(logic_module.EPIC_MAP)
         /\ "PaymentFrequency" \in Range(logic_module.EPIC_MAP_RIDER))
        => LET base == BaseTab(EmptySelection, ui, logic_module)
               select_all_rider == Widget(ui, <<"select_all_epics_master_rider">>, TRUE)
           IN  /\ loc.epic_counts = base.epic_counts
               /\ loc.selected_epics = base.selected_epics
               /\ IsSelected(ui, "PaymentFrequency", RIDER, select_all_rider)
                    => HasKey(loc.epic_counts_rider, "PaymentFrequency")

-----------------------------------------------------------------------------
(* Properties of the normalizer *)

\* the run has drawn the configuration surface of a loaded module
Normalized == pc = "idle" /\ "configure" \in report /\ Loaded(loc.logic_module)

EpicMapOf(fam) ==
    LET logic_module == loc.logic_module
    IN  IF fam = BASE
        THEN IF hasattr(logic_module, "EPIC_MAP") THEN logic_module.EPIC_MAP ELSE <<>>
        ELSE IF hasattr(logic_module, "EPIC_MAP_RIDER") THEN logic_module.EPIC_MAP_RIDER
             ELSE <<>>

SpecOf(fam) == IF fam = BASE THEN loc.epic_counts ELSE loc.epic_counts_rider

SelectedKeysOf(fam) == IF fam = BASE THEN loc.selected_epics ELSE loc.selected_epics_rider

\* the top-level selection flag of an epic: its checkbox, which follows the
\* tab's "Select/Deselect All" box until the user sets it
TopLevelFlag(fam, epic_key) ==
    LET master == IF fam = BASE THEN <<"select_all_epics_master">>
                  ELSE <<"select_all_epics_master_rider">>
    IN  Widget(ui, <<"epic_cb", epic_key, fam>>, Widget(ui, master, TRUE))

\* the PPT variants of an epic whose "Enable" box is ticked in the current mode
EnabledVariants(fam, epic_key) ==
    LET name == IF CountMode(ui) = PER_EPIC THEN "ppt_enabled" ELSE "ppt_enabled_all"
    IN  {ppt \in PPT : Widget(ui, <<name, epic_key, ppt, fam>>, TopLevelFlag(fam, epic_key))}

\* every positive/negative count pair a payload carries
CountPairs(payload) ==
    IF "positive" \in DOMAIN payload
    THEN {<<payload.positive, payload.negative>>}
    ELSE IF "ppt_pos_counts" \in DOMAIN payload
    THEN {<<payload.ppt_pos_counts[ppt], payload.ppt_neg_counts[ppt]>> :
            ppt \in DOMAIN payload.ppt_pos_counts}
    ELSE {<<payload[tier].positive, payload[tier].negative>> : tier \in DOMAIN payload}

\* C11 (as claimed): a key is in a family's spec only if it is a key of that
\* family's epic map whose top-level flag is true (so a family with no epic
\* selected has an empty spec).
C11_OnlySelectedKeysOfOwnMap ==
    Normalized =>
        \A fam \in {BASE, RIDER} :
            \A i \in 1..Len(SpecOf(fam)) :
                /\ SpecOf(fam)[i].key \in Range(EpicMapOf(fam))
                /\ TopLevelFlag(fam, SpecOf(fam)[i].key)

\* C12: a top-level-selected PPT-ranged epic is in its family's spec and key
\* list exactly when at least one of its six PPT variants is enabled; with all
\* six disabled it is in neither, and the run goes on.
C12_NoEnabledVariantNoContribution ==
    Normalized =>
        \A fam \in {BASE, RIDER} :
            \A epic_key \in Range(EpicMapOf(fam)) \cap PptRangedKeys :
                TopLevelFlag(fam, epic_key) =>
                    /\ HasKey(SpecOf(fam), epic_key) <=> EnabledVariants(fam, epic_key) # {}
                    /\ epic_key \in Range(SelectedKeysOf(fam))
                            <=> EnabledVariants(fam, epic_key) # {}

\* C12 witness: a selected PPT-ranged rider epic with all six variants disabled
\* in the individual-counts mode is left out
C12_Witness ==
    /\ Normalized
    /\ CountMode(ui) = PER_EPIC
    /\ "EntryAge" \in Range(EpicMapOf(RIDER))
    /\ TopLevelFlag(RIDER, "EntryAge")
    /\ EnabledVariants(RIDER, "EntryAge") = {}
    /\ ~HasKey(loc.epic_counts_rider, "EntryAge")

\* C13: in the same-count mode every count pair of the base and the rider spec
\* is the global pair, whatever per-epic counts the widget store still holds.
C13_UniformModeUsesGlobalPair ==
    (Normalized /\ CountMode(ui) = UNIFORM) =>
        \A fam \in {BASE, RIDER} :
            \A i \in 1..Len(SpecOf(fam)) :
                CountPairs(SpecOf(fam)[i].val)
                    \subseteq {<<Widget(ui, <<"Positive Cases">>, 5),
                                  Widget(ui, <<"Negative Cases">>, 5)>>}

\* C13 witness: global pair (3, 2) with a per-epic count entered for Smoker
C13_Witness ==
    /\ Normalized
    /\ CountMode(ui) = UNIFORM
    /\ <<"epic_pos", "Smoker", BASE>> \in DOMAIN ui
    /\ HasKey(loc.epic_counts, "Smoker")
    /\ HasKey(loc.epic_counts, "SumAssuredValidation")
    /\ DictGet(loc.epic_counts, "Smoker") = [positive |-> 3, negative |-> 2]

\* the count pair the user entered in the individual-counts mode for an epic
\* of a family: part is a PPT variant, a tier, or "" for the epic's own pair
EnteredPair(fam, epic_key, part) ==
    LET entered(pos_key, neg_key) == <<Widget(ui, pos_key, 5), Widget(ui, neg_key, 5)>>
    IN  CASE part \in PPT /\ epic_key \in PptRangedKeys ->
                entered(<<"epic_pos", epic_key, part, fam>>, <<"epic_neg", epic_key, part, fam>>)
          [] part = "Single Pay" /\ epic_key \notin PptRangedKeys ->
                entered(<<"pos_sp", epic_key>>, <<"neg_sp", epic_key>>)
          [] part = "Others" -> entered(<<"pos_oth", epic_key>>, <<"neg_oth", epic_key>>)
          [] OTHER -> entered(<<"epic_pos", epic_key, fam>>, <<"epic_neg", epic_key, fam>>)

\* C14 (as claimed): in the individual-counts mode every count pair of a spec is
\* the pair entered for that epic (per PPT variant, per SumAssuredValidation tier).
C14_PerEpicModeUsesEnteredPairs ==
    (Normalized /\ CountMode(ui) = PER_EPIC) =>
        \A fam \in {BASE, RIDER} :
            \A i \in 1..Len(SpecOf(fam)) :
                LET epic_key == SpecOf(fam)[i].key
                    payload == SpecOf(fam)[i].val
                IN  IF "ppt_pos_counts" \in DOMAIN payload
                    THEN \A ppt \in DOMAIN payload.ppt_pos_counts :
                            <<payload.ppt_pos_counts[ppt], payload.ppt_neg_counts[ppt]>>
                                = EnteredPair(fam, epic_key, ppt)
                    ELSE IF "positive" \in DOMAIN payload
                    THEN <<payload.positive, payload.negative>> = EnteredPair(fam, epic_key, "")
                    ELSE \A tier \in DOMAIN payload :
                            <<payload[tier].positive, payload[tier].negative>>
                                = EnteredPair(fam, epic_key, tier)

\* the fixed table of frequency codes
FrequencyCode ==
    [freq \in {"Annual", "Half-Yearly", "Quarterly", "Monthly", "Single Pay"} |->
        CASE freq = "Annual" -> 1
          [] freq = "Half-Yearly" -> 2
          [] freq = "Quarterly" -> 3
          [] freq = "Monthly" -> 4
          [] OTHER -> 5]

\* the frequency names ticked in a tab
TickedFrequencies(fam) ==
    {freq \in DOMAIN FrequencyCode :
        Widget(ui, <<"freq_cb", freq, fam>>, TopLevelFlag(fam, "PaymentFrequency"))}

\* the tab whose PaymentFrequency payload a spec holds: the one that wrote last
FrequencyWriter ==
    IF "PaymentFrequency" \in Range(EpicMapOf(RIDER)) /\ TopLevelFlag(RIDER, "PaymentFrequency")
    THEN RIDER ELSE BASE

C16_SumAssuredTiers ==
    LET epic_key == "SumAssuredValidation"
    IN  (/\ Normalized
         /\ epic_key \in Range(EpicMapOf(BASE))
         /\ TopLevelFlag(BASE, epic_key))
        => /\ HasKey(loc.epic_counts, epic_key)
           /\ epic_key \in Range(loc.selected_epics)
           /\ LET payload == DictGet(loc.epic_counts, epic_key)
                  pos == IF CountMode(ui) = UNIFORM THEN Widget(ui, <<"Positive Cases">>, 5)
                         ELSE 5
                  neg == IF CountMode(ui) = UNIFORM THEN Widget(ui, <<"Negative Cases">>, 5)
                         ELSE 5
              IN  /\ DOMAIN payload \subseteq {"Single Pay", "Others"}
                  /\ "Single Pay" \in DOMAIN payload
                        <=> Widget(ui, <<"sa_enabled", epic_key>>, TRUE)
                  /\ "Others" \in DOMAIN payload
                        <=> Widget(ui, <<"oth_enabled", epic_key>>, TRUE)
                  /\ "Others" \in DOMAIN payload =>
                        payload["Others"] = [min_val |-> Widget(ui, <<"min_oth", epic_key>>, 5000000),
                                             positive |-> pos, negative |-> neg]
                  /\ "Single Pay" \in DOMAIN payload =>
                        DOMAIN payload["Single Pay"]
                            = {"min_val", "max_val", "positive", "negative"}

\* C16 witness: only Others enabled, global counts (3, 2)
C16_Witness ==
    /\ Normalized
    /\ HasKey(loc.epic_counts, "SumAssuredValidation")
    /\ DictGet(loc.epic_counts, "SumAssuredValidation")
         = ("Others" :> [min_val |-> 5000000, positive |-> 3, negative |-> 2])

\* the payload the base normalizer produces for a key, everything selected, in
\* the current count mode
BasePayloadOf(epic_key) ==
    LET only == ModuleObject(FALSE, {"EPIC_MAP"}, None, <<epic_key>>, <<>>, FALSE)
        mode == IF CountMode(ui) = PER_EPIC THEN <<"count_mode_selector">> :> PER_EPIC
                ELSE <<>>
    IN  DictGet(BaseTab(EmptySelection, mode, only).epic_counts, epic_key)

\* C17 (as claimed): the payload of a key in the rider spec has the shape of the
\* payload the base normalizer produces for that key; SumAssuredValidation in the
\* rider map gives a tiered payload.
C17_RiderNormalizedLikeBase ==
    Normalized =>
        \A i \in 1..Len(loc.epic_counts_rider) :
            LET epic_key == loc.epic_counts_rider[i].key
                payload == loc.epic_counts_rider[i].val
            IN  /\ DOMAIN payload = DOMAIN BasePayloadOf(epic_key)
                /\ epic_key = "SumAssuredValidation"
                        => DOMAIN payload \subseteq {"Single Pay", "Others"}

-----------------------------------------------------------------------------
(* Properties of the stored result *)

\* C18: the stored ResultSet changes only when a generation run completes, on
\* Clear Results and on a product switch; the last two leave no ResultSet stored
\* and the processing flag false; every other step (a generate request with a
\* ResultSet stored, a rejected request, a widget change) leaves it as it is.
C18_ResultSetChangesOnlyByThreeEvents ==
    [][/\ generated_df' # generated_df =>
            \/ pc = "in_call" /\ pc' = "rerun"
            \/ "cleared" \in report'
            \/ "switched" \in report'
       /\ ("cleared" \in report' \/ "switched" \in report') =>
            generated_df' = NoneObj /\ ~processing']_vars

\* C18 witness: Generate was clicked with a ResultSet stored; the request was
\* rejected and the ResultSet is still shown
C18_Witness ==
    /\ generated_df # NoneObj
    /\ "generate_clicked" \in report
    /\ "warn_epics" \in report
    /\ "results" \in report

\* C19: the sample shown has min(10, |ResultSet|) rows, every sampled row is a
\* row of the ResultSet, no row is taken twice, and showing the sample leaves
\* the stored ResultSet as it was.
C19_SampleOfAtMostTenRows ==
    /\ []((pc = "idle" /\ "results" \in report) =>
            LET rows == generated_df.rows
                sample_df == loc.sample_df
            IN  /\ ~sample_df.raised
                /\ Len(sample_df.rows) = IF Len(rows) < 10 THEN Len(rows) ELSE 10
                /\ Len(sample_df.index) = Len(sample_df.rows)
                /\ \A i \in 1..Len(sample_df.index) :
                        /\ sample_df.index[i] \in 1..Len(rows)
                        /\ sample_df.rows[i] = rows[sample_df.index[i]]
                /\ \A i, j \in 1..Len(sample_df.index) :
                        i # j => sample_df.index[i] # sample_df.index[j])
    /\ [][(pc' = "idle" /\ "results" \in report') => generated_df' = generated_df]_vars

\* C19 witness: ten rows are shown of a frame of more than ten
C19_Witness ==
    /\ pc = "idle"
    /\ "results" \in report
    /\ Len(generated_df.rows) > 10
    /\ Len(loc.sample_df.rows) = 10

\* C20: the summary reports total = number of rows, positive and negative =
\* number of rows whose Test_Type is "Positive" / "Negative" (0 without a
\* Test_Type column); a frame of no rows gives 0, 0, 0 and an empty
\* distribution; positive + negative never exceeds total.
C20_SummaryCounts ==
    (pc = "idle" /\ "results" \in report) =>
        LET rows == generated_df.rows
            summary == loc.summary
            of_type(t) == {i \in 1..Len(rows) :
                            "Test_Type" \in DOMAIN rows[i] /\ rows[i].Test_Type = t}
        IN  /\ summary.total = Len(rows)
            /\ summary.positive = Cardinality(of_type("Positive"))
            /\ summary.negative = Cardinality(of_type("Negative"))
            /\ summary.positive + summary.negative <= summary.total
            /\ "Test_Type" \notin Range(generated_df.columns) =>
                    summary.positive = 0 /\ summary.negative = 0
            /\ Len(rows) = 0 =>
                    /\ summary.total = 0 /\ summary.positive = 0 /\ summary.negative = 0
                    /\ DOMAIN summary.epic_counts = {}

\* C20 witness: a frame with positive rows, negative rows and rows of a third
\* test type has been summarized
C20_Witness ==
    /\ pc = "idle"
    /\ "results" \in report
    /\ "Test_Type" \in Range(generated_df.columns)
    /\ loc.summary.positive > 0
    /\ loc.summary.negative > 0
    /\ loc.summary.positive + loc.summary.negative < loc.summary.total

\* does the text contain "Fail"; is it exactly "Pass"
HasFail(text) ==
    \E i \in 1..Len(text) :
        /\ i + 3 <= Len(text)
        /\ text[i] = "F" /\ text[i + 1] = "a" /\ text[i + 2] = "i" /\ text[i + 3] = "l"

IsPass(text) == text = <<"P", "a", "s", "s">>

\* C21: only the columns whose name starts with "Rule_" are styled; a styled
\* cell gets the fail style when its text contains "Fail", the pass style when
\* its text is exactly "Pass" (and does not contain "Fail"), no style otherwise.
C21_RuleOutcomeClasses ==
    (pc = "idle" /\ "results" \in report) =>
        LET sample_df == loc.sample_df
            styles == loc.styles
        IN  /\ DOMAIN styles = {col \in Range(generated_df.columns) :
                                    /\ Len(ColumnChars[col]) >= 5
                                    /\ SubSeq(ColumnChars[col], 1, 5) = <<"R", "u", "l", "e", "_">>}
            /\ \A col \in DOMAIN styles :
                    /\ Len(styles[col]) = Len(sample_df.rows)
                    /\ \A i \in 1..Len(sample_df.rows) :
                        LET text == sample_df.rows[i][col]
                        IN  /\ HasFail(text) <=> styles[col][i] = FailStyle
                            /\ (IsPass(text) /\ ~HasFail(text)) <=> styles[col][i] = PassStyle
                            /\ (~IsPass(text) /\ ~HasFail(text)) <=> styles[col][i] = ""

\* C21 witness: a frame with a rule column and a column Ruled is shown; the
\* sample has the texts "Passed" (no style) and "PassFail" (fail style)
C21_Witness ==
    /\ pc = "idle"
    /\ "results" \in report
    /\ "Ruled" \in Range(generated_df.columns)
    /\ "Rule_1" \in DOMAIN loc.styles
    /\ \E i \in 1..Len(loc.sample_df.rows) :
            /\ loc.sample_df.rows[i].Rule_1 = <<"P", "a", "s", "s", "e", "d">>
            /\ loc.styles.Rule_1[i] = ""
    /\ \E i \in 1..Len(loc.sample_df.rows) :
            /\ loc.sample_df.rows[i].Rule_1 = <<"P", "a", "s", "s", "F", "a", "i", "l">>
            /\ loc.styles.Rule_1[i] = FailStyle

-----------------------------------------------------------------------------
(* Properties of the specs handed to the entry point *)

\* the epic map of a family in the module a generation run has loaded
CalledMapOf(attr) ==
    IF Loaded(req.logic_module) /\ hasattr(req.logic_module, attr)
    THEN IF attr = "EPIC_MAP" THEN req.logic_module.EPIC_MAP
         ELSE req.logic_module.EPIC_MAP_RIDER
    ELSE <<>>

\* keys lists each key once, all keys of epic_map, in the order of epic_map
InMapOrder(keys, epic_map) ==
    /\ \A i \in 1..Len(keys) : keys[i] \in Range(epic_map)
    /\ \A i, j \in 1..Len(keys) :
            i < j => \E a, b \in 1..Len(epic_map) :
                        a < b /\ epic_map[a] = keys[i] /\ epic_map[b] = keys[j]

\* C22 (as claimed): the key list passed to the entry point for a family is the
\* sequence of keys of that family's spec, each key once, and the keys are keys
\* of that family's epic map in the map's order.
C22_KeyListsFollowTheMaps ==
    pc = "in_call" =>
        /\ call.selected_epics = DictKeys(call.epic_counts)
        /\ call.selected_epics_rider = DictKeys(call.epic_counts_rider)
        /\ InMapOrder(call.selected_epics, CalledMapOf("EPIC_MAP"))
        /\ InMapOrder(call.selected_epics_rider, CalledMapOf("EPIC_MAP_RIDER"))

\* C23: the payload of a PPT-ranged epic has a ppt_enabled flag for each of the
\* six variants and a range (and, with individual counts, a positive and a
\* negative count) for exactly the enabled ones; with the same count for all it
\* has one shared pair and no per-variant counts, with individual counts
\* per-variant counts and no shared pair.
C23_PptPayloadShape ==
    Normalized =>
        \A fam \in {BASE, RIDER} :
            \A i \in 1..Len(SpecOf(fam)) :
                SpecOf(fam)[i].key \in {"EntryAge", "PolicyTerm", "MaturityAge",
                                        "PremiumPayingTerm"} =>
                    LET payload == SpecOf(fam)[i].val
                        on == {ppt \in DOMAIN payload.ppt_enabled : payload.ppt_enabled[ppt]}
                    IN  /\ DOMAIN payload.ppt_enabled
                             = {"Single Pay", "Limited Pay (5 pay)", "Limited Pay (10 pay)",
                                "Limited Pay (15 pay)", "Limited Pay (Pay till age 60)",
                                "Regular Pay"}
                        /\ DOMAIN payload.ppt_age_ranges = on
                        /\ IF CountMode(ui) = PER_EPIC
                           THEN /\ DOMAIN payload = {"ppt_age_ranges", "ppt_pos_counts",
                                                     "ppt_neg_counts", "ppt_enabled"}
                                /\ DOMAIN payload.ppt_pos_counts = on
                                /\ DOMAIN payload.ppt_neg_counts = on
                           ELSE DOMAIN payload = {"ppt_age_ranges", "ppt_enabled",
                                                  "positive", "negative"}

\* C23 witness: with individual counts, a base EntryAge with one variant
\* disabled and five enabled is in the spec
C23_Witness ==
    /\ Normalized
    /\ CountMode(ui) = PER_EPIC
    /\ HasKey(loc.epic_counts, "EntryAge")
    /\ ~DictGet(loc.epic_counts, "EntryAge").ppt_enabled["Regular Pay"]
    /\ DOMAIN DictGet(loc.epic_counts, "EntryAge").ppt_pos_counts = PPT \ {"Regular Pay"}

\* the Single Pay tiers of SumAssuredValidation in a base spec
SinglePayTiers(epic_counts) ==
    {epic_counts[i].val["Single Pay"] :
        i \in {j \in 1..Len(epic_counts) :
                /\ epic_counts[j].key = "SumAssuredValidation"
                /\ "Single Pay" \in DOMAIN epic_counts[j].val}}

\* C24: in every spec stored for a generation run or handed to the entry point,
\* the Single Pay tier of SumAssuredValidation has max_val >= min_val, however
\* the minimum and the maximum were edited.
C24_SinglePayMaxNotBelowMin ==
    /\ \A tier \in SinglePayTiers(epic_counts_to_generate) : tier.max_val >= tier.min_val
    /\ call.made => \A tier \in SinglePayTiers(call.epic_counts) : tier.max_val >= tier.min_val

\* C24 witness: the entry point is called after the minimum was raised and a
\* maximum entered above it
C24_Witness ==
    /\ pc = "in_call"
    /\ \E tier \in SinglePayTiers(call.epic_counts) :
            tier.min_val = 4000000 /\ tier.max_val = 4500000

\* C25: the entry point is invoked only with no ResultSet stored; a script run
\* that starts and ends with a ResultSet stored does not evaluate the
\* configuration surface, leaves both selected-epic lists and both specs empty,
\* and rejects a generate request as "no epic selected" without starting a run.
C25_NoRunOverStoredResult ==
    /\ [](pc = "in_call" => generated_df = NoneObj)
    /\ [][(generated_df # NoneObj /\ generated_df' # NoneObj /\ disk' = disk) =>
            /\ loc'.logic_module = NoneObj
            /\ loc'.selected_epics = <<>> /\ loc'.selected_epics_rider = <<>>
            /\ loc'.epic_counts = EmptyDict /\ loc'.epic_counts_rider = EmptyDict
            /\ "generate_clicked" \in report' =>
                    "warn_epics" \in report' /\ "accepted" \notin report'
            /\ ~processing' /\ pc' = "idle"
            /\ generated_df' = generated_df]_vars

\* C25 witness: a generate request made over a stored ResultSet ended in the
\* warning, with nothing selected and the surface not evaluated
C25_Witness ==
    /\ generated_df # NoneObj
    /\ pc = "idle"
    /\ {"generate_clicked", "warn_epics"} \subseteq report
    /\ loc.logic_module = NoneObj
    /\ loc.selected_epics = <<>> /\ loc.selected_epics_rider = <<>>

\* the run of the last accepted request is over
RunEnded == req.status \in {"succeeded", "failed", "no_entry_point", "load_failed", "dropped"}

\* C26: once a request is accepted the processing flag eventually becomes false
\* again, whatever the outcome of the run (a result, an exception, a module
\* that does not load or has no entry point); the flag is true only from the
\* acceptance of a request to the end of its run.
C26_ProcessingReleased ==
    /\ (processing ~> ~processing)
    /\ [](processing => \/ pc = "rerun" /\ req.status = "accepted"
                        \/ pc = "in_call" /\ req.status = "invoked")
    /\ [](RunEnded => ~processing)

\* C26 witness: a request was accepted for a module without entry point, and
\* the run has ended with the flag released
C26_Witness ==
    /\ req.status = "no_entry_point"
    /\ req.epic_counts # EmptyDict
    /\ ~processing
    /\ pc = "rerun"

\* C27 (as claimed): every default PPT range, of the base and of the rider
\* tables, has min <= max and lies between the lower and the upper bound of the
\* slider it initialises.
C27_DefaultsInsideSliderBounds ==
    pc = "drawn" =>
        /\ loc.slider.value[1] <= loc.slider.value[2]
        /\ loc.slider.min_value <= loc.slider.value[1]
        /\ loc.slider.value[2] <= loc.slider.max_value

\* C28 (as claimed): whenever the Generate handler runs a product is selected,
\* and the "Please select a product" warning is never shown.
C28_ProductSelectedAtGenerate ==
    /\ "generate_clicked" \in report => Truthy(selected_module_name_py)
    /\ "warn_product" \notin report

====
